---- MODULE Spec2Model ----
(***************************************************************************)
(* Function grapher: a text field, two checkbuttons (Derivar, Integrar)    *)
(* and two buttons (Graficar, Limpiar) drive one FigureBuilder whose axes  *)
(* are shown through a GraphicCanvas.  Each button handler runs to         *)
(* completion on the Tk main thread, so a handler is one atomic action.    *)
(***************************************************************************)
EXTENDS Integers, Sequences, FiniteSets, TLC

VARIABLES
    entry,                \* InputAndOptions.entry: content of the text field
    checkbutton1_estado,  \* BooleanVar of the 'Derivar' checkbutton
    checkbutton2_estado,  \* BooleanVar of the 'Integrar' checkbutton
    axe,                  \* FigureBuilder.axe: the matplotlib Axes of the figure
    canvas,               \* what FigureCanvasTkAgg.draw() rendered last
    last,                 \* history: the button handler that ran last
    objs,                 \* heap of Function instances (Function specification)
    call                  \* history: the Function method that ran last

vars == <<entry, checkbutton1_estado, checkbutton2_estado, axe, canvas, last,
          objs, call>>

guiVars == <<entry, checkbutton1_estado, checkbutton2_estado, axe, canvas, last>>

fnVars == <<objs, call>>

\* Largest number of Function instances kept alive in the Function specification.
MaxObjs == 3

-----------------------------------------------------------------------------
(* Symbolic expressions of the symbolic-math library, as far as the program *)
(* can tell them apart.                                                      *)
(*   mono    (num/den) * x^deg, in lowest terms, the zero polynomial 0/1*x^0 *)
(*   xx      x**x, which has a derivative but no closed-form integral        *)
(*   D, I    an unevaluated derivative / integral of arg                     *)
(*   rel     a relational such as x > 1: parses, but is no Expr              *)

RECURSIVE GCD(_, _)
GCD(a, b) == IF b = 0 THEN a ELSE GCD(b, a % b)

Mono(n, d, g) ==
    IF n = 0 THEN [kind |-> "mono", num |-> 0, den |-> 1, deg |-> 0]
    ELSE LET c == GCD(n, d)
         IN [kind |-> "mono", num |-> n \div c, den |-> d \div c, deg |-> g]

XX == [kind |-> "xx"]

Rel == [kind |-> "rel"]

Raise(what) == [raised |-> TRUE, error |-> what]

Return(v) == [raised |-> FALSE, value |-> v]

\* The strings a user types into the text field in this model.
Texts == {"", "x**2", "3*x", "x", "5", "x+", "x>1", "x**x"}

string_to_symbolic(string_function) ==
    CASE string_function = "x**2" -> Return(Mono(1, 1, 2))
      [] string_function = "3*x"  -> Return(Mono(3, 1, 1))
      [] string_function = "x"    -> Return(Mono(1, 1, 1))
      [] string_function = "5"    -> Return(Mono(5, 1, 0))
      [] string_function = "x>1"  -> Return(Rel)
      [] string_function = "x**x" -> Return(XX)
      [] OTHER                    -> Raise("SympifyError")

diff(e) ==
    CASE e.kind = "mono" ->
            IF e.deg = 0 THEN Return(Mono(0, 1, 0))
            ELSE Return(Mono(e.num * e.deg, e.den, e.deg - 1))
      [] e.kind = "rel" -> Raise("diff")
      [] e.kind = "I"   -> Return(e.arg)
      [] OTHER          -> Return([kind |-> "D", arg |-> e])

integrate(e) ==
    CASE e.kind = "mono" -> Return(Mono(e.num, e.den * (e.deg + 1), e.deg + 1))
      [] e.kind = "rel"  -> Raise("integrate")
      [] OTHER           -> Return([kind |-> "I", arg |-> e])

RECURSIVE HasIntegral(_)
HasIntegral(e) ==
    CASE e.kind = "I" -> TRUE
      [] e.kind = "D" -> HasIntegral(e.arg)
      [] OTHER        -> FALSE

\* What the lambdified function gives for a 300-point array: an array of the
\* same length, a bare scalar (a constant expression), or a NameError (the
\* printed code names Integral).
symbolic_to_callable(symbolic_function) ==
    [of |-> symbolic_function,
     gives |-> IF symbolic_function.kind = "mono" /\ symbolic_function.deg = 0
                 THEN "scalar"
               ELSE IF HasIntegral(symbolic_function) THEN "NameError"
               ELSE "array"]

RECURSIVE latex(_)
latex(e) ==
    CASE e.kind = "mono" ->
            LET xpow == IF e.deg = 0 THEN ""
                        ELSE IF e.deg = 1 THEN "x"
                        ELSE "x^{" \o ToString(e.deg) \o "}"
                top  == IF e.deg = 0 THEN ToString(e.num)
                        ELSE IF e.num = 1 THEN xpow
                        ELSE ToString(e.num) \o " " \o xpow
            IN IF e.den = 1 THEN top
               ELSE "\\frac{" \o top \o "}{" \o ToString(e.den) \o "}"
      [] e.kind = "xx"  -> "x^{x}"
      [] e.kind = "rel" -> "x > 1"
      [] e.kind = "D"   -> "\\frac{d}{d x} " \o latex(e.arg)
      [] e.kind = "I"   -> "\\int " \o latex(e.arg) \o "\\, dx"

-----------------------------------------------------------------------------
(* class Function.  Instances live in a heap (a sequence); a reference is    *)
(* an index into it, so that what a method does to self can be seen.         *)

Function(heap, symbolic_function, color) ==
    Append(heap, [color |-> color,
                  symbolic_function |-> symbolic_function,
                  callable_function |-> symbolic_to_callable(symbolic_function)])

\* derive that overwrites self instead of building a new instance.
Function_derive_inplace(heap, self) ==
    LET derived == diff(heap[self].symbolic_function)
    IN IF derived.raised
         THEN [raised |-> TRUE, error |-> derived.error, heap |-> heap, ref |-> 0]
         ELSE [raised |-> FALSE, error |-> "",
               heap |-> [heap EXCEPT ![self] =
                           [color |-> "red",
                            symbolic_function |-> derived.value,
                            callable_function |-> symbolic_to_callable(derived.value)]],
               ref |-> self]

Function_derive(heap, self) ==
    LET derived == diff(heap[self].symbolic_function)
    IN IF derived.raised
         THEN [raised |-> TRUE, error |-> derived.error, heap |-> heap, ref |-> 0]
         ELSE [raised |-> FALSE, error |-> "",
               heap |-> Function(heap, derived.value, "red"),
               ref |-> Len(heap) + 1]

Function_integrate(heap, self) ==
    LET integral == integrate(heap[self].symbolic_function)
    IN IF integral.raised
         THEN [raised |-> TRUE, error |-> integral.error, heap |-> heap, ref |-> 0]
         ELSE [raised |-> FALSE, error |-> "",
               heap |-> Function(heap, integral.value, "green"),
               ref |-> Len(heap) + 1]

evaluate(heap, self) == heap[self].callable_function.gives

-----------------------------------------------------------------------------
(* class FigureBuilder: one matplotlib Axes.  A curve is a Line2D with its   *)
(* legend label and colour; fresh tells the Line2D objects created by the    *)
(* handler that ran last from those that were already there when it began.   *)

\* figure.add_subplot(111), and what Axes.cla() goes back to.
NewAxes ==
    [lines |-> <<>>, xlim |-> <<0, 1>>, ylim |-> <<0, 1>>,
     autoscalex_on |-> TRUE, autoscaley_on |-> TRUE,
     xlabel |-> "", ylabel |-> "", xticks |-> <<>>, yticks |-> <<>>,
     guides |-> 0, grid |-> FALSE, legend |-> FALSE]

cla(a) == NewAxes

_configure_axes(a) ==
    [a EXCEPT !.xlabel = "x", !.ylabel = "f(x)",
              !.xlim = <<-50, 50>>, !.autoscalex_on = FALSE,
              !.ylim = <<-50, 50>>, !.autoscaley_on = FALSE,
              !.xticks = <<-50, 51, 10>>, !.yticks = <<-50, 51, 10>>,
              !.guides = @ + 2, !.grid = TRUE]

RECURSIVE Pow(_, _)
Pow(b, n) == IF n = 0 THEN 1 ELSE b * Pow(b, n - 1)

\* The y interval of the samples over linspace(-50, 50, 300), to the integer.
DataLim(e) ==
    IF e.kind = "mono" /\ e.deg > 0
      THEN LET top == (e.num * Pow(50, e.deg)) \div e.den
           IN IF e.deg % 2 = 0 THEN <<0, top>> ELSE <<-top, top>>
      ELSE <<0, 1>>

\* Axes.plot(xpoints, ypoints, label=..., color=...): x and y must have the
\* same first dimension; the view follows the data only while autoscaling is on.
Axes_plot(a, ypoints, function) ==
    IF ypoints # "array" THEN [raised |-> TRUE, error |-> "ValueError", axe |-> a]
    ELSE [raised |-> FALSE, error |-> "",
          axe |-> [a EXCEPT
                     !.lines = Append(@, [label |-> "$" \o latex(function.symbolic_function) \o "$",
                                          color |-> function.color,
                                          fresh |-> TRUE]),
                     !.xlim = IF a.autoscalex_on THEN <<-50, 50>> ELSE @,
                     !.ylim = IF a.autoscaley_on
                                THEN DataLim(function.symbolic_function) ELSE @]]

RECURSIVE PlotFrom(_, _, _, _)
PlotFrom(a, heap, functions, i) ==
    IF i > Len(functions)
      THEN [raised |-> FALSE, error |-> "", axe |-> [a EXCEPT !.legend = TRUE]]
    ELSE LET ypoints == evaluate(heap, functions[i])
         IN IF ypoints = "NameError"
              THEN [raised |-> TRUE, error |-> "NameError", axe |-> a]
            ELSE LET p == Axes_plot(a, ypoints, heap[functions[i]])
                 IN IF p.raised THEN p
                    ELSE PlotFrom(p.axe, heap, functions, i + 1)

\* plot_function whose loop skips the first function of the list.
plot_function_skip_first(a, heap, functions) == PlotFrom(a, heap, functions, 2)

plot_function(a, heap, functions) == PlotFrom(a, heap, functions, 1)

\* clear that forgets axe.cla().
clear_no_cla(a) == _configure_axes(a)

\* clear that forgets self._configure_axes().
clear_no_configure(a) == cla(a)

clear(a) == _configure_axes(cla(a))

FigureBuilder == _configure_axes(NewAxes)

-----------------------------------------------------------------------------
(* The widgets and the two button handlers of main().                        *)

get_data ==
    [funcion |-> entry,
     derivar |-> checkbutton1_estado,
     integrar |-> checkbutton2_estado]

\* FigureCanvasTkAgg.draw(): the canvas shows the axes as they are now.
update_graphic(a) == a

\* The Line2D objects that exist when a handler starts are not its own.
Age(a) == [a EXCEPT !.lines = [i \in DOMAIN @ |-> [@[i] EXCEPT !.fresh = FALSE]]]

\* The try block of boton_graficar up to 'if funciones:': the list of
\* references built from the input, or the exception that ended it.
BuildFunciones(data) ==
    IF data.funcion = ""
      THEN [raised |-> FALSE, error |-> "", heap |-> <<>>, funciones |-> <<>>]
    ELSE LET simb == string_to_symbolic(data.funcion)
         IN IF simb.raised
              THEN [raised |-> TRUE, error |-> simb.error, heap |-> <<>>, funciones |-> <<>>]
            ELSE
              LET h1 == Function(<<>>, simb.value, "blue")
                  f  == 1
                  d  == IF data.derivar THEN Function_derive(h1, f)
                        ELSE [raised |-> FALSE, error |-> "", heap |-> h1, ref |-> 0]
                  l2 == IF data.derivar /\ ~d.raised THEN <<f, d.ref>> ELSE <<f>>
              IN IF d.raised
                   THEN [raised |-> TRUE, error |-> d.error, heap |-> d.heap, funciones |-> <<f>>]
                 ELSE
                   LET g == IF data.integrar THEN Function_integrate(d.heap, f)
                            ELSE [raised |-> FALSE, error |-> "", heap |-> d.heap, ref |-> 0]
                   IN IF g.raised
                        THEN [raised |-> TRUE, error |-> g.error, heap |-> g.heap, funciones |-> l2]
                      ELSE [raised |-> FALSE, error |-> "", heap |-> g.heap,
                            funciones |-> IF data.integrar THEN Append(l2, g.ref) ELSE l2]

\* 'if funciones:' -- a list is true when it is not empty.
\* The guard 'if funciones:' left out.
Truthy_always(funciones) == TRUE

Truthy(funciones) == Len(funciones) > 0

\* The whole body of boton_graficar on the axes a and the canvas content c:
\* the axes and canvas it leaves, and what it printed.
Graficar(data, a, c) ==
    LET b == BuildFunciones(data)
    IN IF b.raised
         THEN [axe |-> a, canvas |-> c, raised |-> TRUE, printed |-> b.error,
               cleared |-> FALSE, drawn |-> FALSE]
       ELSE IF ~Truthy(b.funciones)
         THEN [axe |-> a, canvas |-> c, raised |-> FALSE, printed |-> "",
               cleared |-> FALSE, drawn |-> FALSE]
       ELSE LET p == plot_function(clear(a), b.heap, b.funciones)
            IN IF p.raised
                 THEN [axe |-> p.axe, canvas |-> c, raised |-> TRUE, printed |-> p.error,
                       cleared |-> TRUE, drawn |-> FALSE]
               ELSE [axe |-> p.axe, canvas |-> update_graphic(p.axe), raised |-> FALSE,
                     printed |-> "", cleared |-> TRUE, drawn |-> TRUE]

\* boton_limpiar that forgets graphic_frame.update_graphic().
Limpiar_no_draw(a, c) ==
    [axe |-> clear(a), canvas |-> c, raised |-> FALSE, printed |-> "",
     cleared |-> TRUE, drawn |-> FALSE]

\* The whole body of boton_limpiar.
Limpiar(a, c) ==
    LET a1 == clear(a)
    IN [axe |-> a1, canvas |-> update_graphic(a1), raised |-> FALSE, printed |-> "",
        cleared |-> TRUE, drawn |-> TRUE]

NoData == [funcion |-> "", derivar |-> FALSE, integrar |-> FALSE]

Init ==
    /\ entry = ""
    /\ checkbutton1_estado = FALSE
    /\ checkbutton2_estado = FALSE
    /\ axe = FigureBuilder
    /\ canvas = update_graphic(FigureBuilder)
    /\ last = [button |-> "none", data |-> NoData, raised |-> FALSE, printed |-> "",
               cleared |-> FALSE, drawn |-> FALSE, had |-> 0, prev_raised |-> FALSE]
    /\ objs = <<>>
    /\ call = [op |-> "none", self |-> 0, before |-> <<>>, raised |-> FALSE, ref |-> 0]

\* The user edits the text field.
TypeEntry ==
    /\ \E t \in Texts : t # entry /\ entry' = t
    /\ UNCHANGED <<checkbutton1_estado, checkbutton2_estado, axe, canvas, last>>
    /\ UNCHANGED fnVars

\* The user clicks the 'Derivar' checkbutton.
ToggleDerivar ==
    /\ checkbutton1_estado' = ~checkbutton1_estado
    /\ UNCHANGED <<entry, checkbutton2_estado, axe, canvas, last>>
    /\ UNCHANGED fnVars

\* The user clicks the 'Integrar' checkbutton.
ToggleIntegrar ==
    /\ checkbutton2_estado' = ~checkbutton2_estado
    /\ UNCHANGED <<entry, checkbutton1_estado, axe, canvas, last>>
    /\ UNCHANGED fnVars

boton_graficar ==
    LET data == get_data
        r == Graficar(data, Age(axe), Age(canvas))
    IN /\ axe' = r.axe
       /\ canvas' = r.canvas
       /\ last' = [button |-> "graficar", data |-> data, raised |-> r.raised,
                   printed |-> r.printed, cleared |-> r.cleared, drawn |-> r.drawn,
                   had |-> Len(axe.lines), prev_raised |-> last.raised]
       /\ UNCHANGED <<entry, checkbutton1_estado, checkbutton2_estado>>
       /\ UNCHANGED fnVars

boton_limpiar ==
    LET r == Limpiar(Age(axe), Age(canvas))
    IN /\ axe' = r.axe
       /\ canvas' = r.canvas
       /\ last' = [button |-> "limpiar", data |-> get_data, raised |-> r.raised,
                   printed |-> r.printed, cleared |-> r.cleared, drawn |-> r.drawn,
                   had |-> Len(axe.lines), prev_raised |-> last.raised]
       /\ UNCHANGED <<entry, checkbutton1_estado, checkbutton2_estado>>
       /\ UNCHANGED fnVars

Next ==
    \/ TypeEntry
    \/ ToggleDerivar
    \/ ToggleIntegrar
    \/ boton_graficar
    \/ boton_limpiar

Spec == Init /\ [][Next]_vars

-----------------------------------------------------------------------------
(* The Function specification: Function instances are built from parsed     *)
(* input and by derive and integrate on any live instance, of any colour.    *)

NewFunction ==
    /\ Len(objs) < MaxObjs
    /\ \E t \in Texts :
         LET simb == string_to_symbolic(t)
         IN /\ ~simb.raised
            /\ objs' = Function(objs, simb.value, "blue")
            /\ call' = [op |-> "new", self |-> 0, before |-> objs, raised |-> FALSE,
                        ref |-> Len(objs) + 1]
    /\ UNCHANGED guiVars

CallDerive ==
    /\ Len(objs) < MaxObjs
    /\ \E self \in 1..Len(objs) :
         LET r == Function_derive(objs, self)
         IN /\ objs' = r.heap
            /\ call' = [op |-> "derive", self |-> self, before |-> objs,
                        raised |-> r.raised, ref |-> r.ref]
    /\ UNCHANGED guiVars

CallIntegrate ==
    /\ Len(objs) < MaxObjs
    /\ \E self \in 1..Len(objs) :
         LET r == Function_integrate(objs, self)
         IN /\ objs' = r.heap
            /\ call' = [op |-> "integrate", self |-> self, before |-> objs,
                        raised |-> r.raised, ref |-> r.ref]
    /\ UNCHANGED guiVars

NextFn ==
    \/ NewFunction
    \/ CallDerive
    \/ CallIntegrate

SpecFn == Init /\ [][NextFn]_vars

-----------------------------------------------------------------------------
(* Properties.                                                               *)

\* The function curves of an Axes, without the bookkeeping of which handler
\* created them.
Curves(a) == [i \in DOMAIN a.lines |->
                [label |-> a.lines[i].label, color |-> a.lines[i].color]]

Curve(e, color) == [label |-> "$" \o latex(e) \o "$", color |-> color]

Plottable(e) == symbolic_to_callable(e).gives = "array"

\* The string parses and every requested symbolic operation goes through.
SymbolicOK(data) ==
    LET simb == string_to_symbolic(data.funcion)
    IN /\ ~simb.raised
       /\ data.derivar => ~diff(simb.value).raised
       /\ data.integrar => ~integrate(simb.value).raised

\* ... and every requested curve can be sampled and drawn.
Valid(data) ==
    /\ SymbolicOK(data)
    /\ LET f == string_to_symbolic(data.funcion).value
       IN /\ Plottable(f)
          /\ data.derivar => Plottable(diff(f).value)
          /\ data.integrar => Plottable(integrate(f).value)

\* f in blue, then f' in red if asked for, then the integral of f in green
\* if asked for.
Requested(data) ==
    LET f == string_to_symbolic(data.funcion).value
    IN <<Curve(f, "blue")>>
       \o (IF data.derivar THEN <<Curve(diff(f).value, "red")>> ELSE <<>>)
       \o (IF data.integrar THEN <<Curve(integrate(f).value, "green")>> ELSE <<>>)

\* What a press of Graficar asks for when failures plot nothing.
RequestedOrNothing(data) ==
    IF data.funcion # "" /\ Valid(data) THEN Requested(data) ELSE <<>>

AllFresh(a) == \A i \in DOMAIN a.lines : a.lines[i].fresh

NoneFresh(a) == \A i \in DOMAIN a.lines : ~a.lines[i].fresh

\* C1 as stated: in every idle state the canvas shows the curves of the most
\* recent press: none after Limpiar, the requested curves after Graficar.
C1_CanvasMatchesLastPress ==
    /\ last.button = "limpiar" => Curves(canvas) = <<>>
    /\ last.button = "graficar" => Curves(canvas) = RequestedOrNothing(last.data)

\* C1 amended: the canvas shows no curve after Limpiar and exactly the
\* requested curves after a Graficar press with a non-empty text whose every
\* step went through; a Graficar press with an empty text, or one that fails,
\* leaves the curves shown on the canvas as they were.
C1_CanvasMatchesLastCompletedPress ==
    /\ [](last.button = "limpiar" => Curves(canvas) = <<>>)
    /\ [](last.button = "graficar" /\ last.data.funcion # "" /\ Valid(last.data)
            => Curves(canvas) = Requested(last.data))
    /\ [][boton_graficar /\ (entry = "" \/ ~Valid(get_data))
            => Curves(canvas') = Curves(canvas)]_vars

\* A press with an empty text, after a press that drew three curves, with the
\* three curves still on the canvas.
C1_Witness ==
    /\ last.button = "graficar"
    /\ last.data.funcion = ""
    /\ last.had = 3
    /\ Len(canvas.lines) = 3

\* C2 as stated: after any press of Graficar or Limpiar, no curve created by
\* an earlier press remains on the axes.
C2_NoEarlierCurveAfterAnyPress ==
    last.button # "none" => AllFresh(axe)

\* C2 amended: after a press of Limpiar, and after a press of Graficar with a
\* non-empty text that parses, differentiates and integrates as requested
\* (so that the handler reaches figure.clear()), no curve created by an
\* earlier press remains on the axes, whether or not the plotting then fails.
C2_NoEarlierCurveAfterClear ==
    (\/ last.button = "limpiar"
     \/ (last.button = "graficar" /\ last.data.funcion # "" /\ SymbolicOK(last.data)))
    => AllFresh(axe)

\* Three earlier curves replaced by the single curve of a later press.
C2_Witness ==
    /\ last.button = "graficar"
    /\ last.data.funcion # ""
    /\ SymbolicOK(last.data)
    /\ last.had = 3
    /\ Len(axe.lines) = 1
    /\ AllFresh(axe)

\* C3: when a press of Graficar fails at any step, the axes hold no curve
\* created by that press.
C3_FailedPlotLeavesNoCurve ==
    last.button = "graficar" /\ last.raised => NoneFresh(axe)

\* C4: after Limpiar the axes hold no function curve and the canvas has been
\* redrawn to show the emptied axes.
C4_ClearEmptiesAndRedraws ==
    last.button = "limpiar"
    => /\ axe.lines = <<>>
       /\ last.drawn
       /\ canvas = axe

\* Limpiar pressed while three curves were plotted.
C4_Witness ==
    /\ last.button = "limpiar"
    /\ last.had = 3
    /\ axe.lines = <<>>
    /\ canvas.lines = <<>>

\* C5: in every idle state both axes run from -50 to 50.
C5_FixedRange ==
    /\ axe.xlim = <<-50, 50>>
    /\ axe.ylim = <<-50, 50>>

\* The axes after a press that wiped them and plotted three curves.
C5_Witness ==
    /\ last.button = "graficar"
    /\ last.cleared
    /\ Len(axe.lines) = 3
    /\ axe.xlim = <<-50, 50>>
    /\ axe.ylim = <<-50, 50>>

\* C6: derive and integrate return a new instance, red for derive and green
\* for integrate whatever the colour of self, and leave every instance that
\* existed before, self included, as it was.
C6_DeriveIntegrateFresh ==
    call.op \in {"derive", "integrate"} /\ ~call.raised
    => /\ Len(objs) = Len(call.before) + 1
       /\ call.ref = Len(objs)
       /\ call.ref # call.self
       /\ SubSeq(objs, 1, Len(call.before)) = call.before
       /\ objs[call.ref].color = (IF call.op = "derive" THEN "red" ELSE "green")

\* derive called on a green instance (an integral) returned a red one.
C6_Witness ==
    /\ call.op = "derive"
    /\ ~call.raised
    /\ call.before[call.self].color = "green"
    /\ objs[call.self].color = "green"
    /\ objs[call.ref].color = "red"

C8_CanvasInSync ==
    canvas = axe

\* C9: a successful press of Graficar (non-empty valid expression) leaves on
\* the axes and shows on the canvas exactly its own curves, also after
\* presses that failed.
C9_SuccessAfterFailure ==
    last.button = "graficar" /\ last.data.funcion # "" /\ Valid(last.data)
    => /\ ~last.raised
       /\ Curves(axe) = Requested(last.data)
       /\ AllFresh(axe)
       /\ canvas = axe

\* A successful press right after a press that failed while plotting its
\* second curve and left its first curve on the axes.
C9_Witness ==
    /\ last.button = "graficar"
    /\ last.data.funcion # ""
    /\ Valid(last.data)
    /\ last.prev_raised
    /\ last.had = 1
    /\ Len(axe.lines) = 3
    /\ canvas = axe

\* C10: a press of Graficar with an empty text changes nothing: the axes are
\* neither cleared nor plotted on, the canvas is not redrawn, and the curves
\* of the earlier press stay.
C10_EmptyPlotIsNoOp ==
    [][boton_graficar /\ entry = ""
         => /\ Curves(axe') = Curves(axe)
            /\ [axe' EXCEPT !.lines = <<>>] = [axe EXCEPT !.lines = <<>>]
            /\ Curves(canvas') = Curves(canvas)
            /\ [canvas' EXCEPT !.lines = <<>>] = [canvas EXCEPT !.lines = <<>>]
            /\ NoneFresh(axe')
            /\ ~last'.cleared
            /\ ~last'.drawn]_vars

\* An empty-text press with both boxes checked while three curves are plotted.
C10_Witness ==
    /\ last.button = "graficar"
    /\ last.data = [funcion |-> "", derivar |-> TRUE, integrar |-> TRUE]
    /\ last.had = 3
    /\ Len(axe.lines) = 3
    /\ NoneFresh(axe)

====
